---- MODULE Spec2Model ----
(***************************************************************************)
(* Model of the poise help builtin (src/builtins/help.rs) and of the      *)
(* application-command permission lookup                                   *)
(* (src/dispatch/permissions/application.rs).                              *)
(*                                                                         *)
(* A Rust String is modelled as the sequence of its UTF-8 bytes, each byte *)
(* abstracted to its class: "a" (an ASCII byte other than newline), "nl"   *)
(* (the newline byte), "L" (the lead byte of a two-byte character) and "C" *)
(* (its continuation byte).  Indices are 0-based byte offsets as in Rust;  *)
(* slicing at an offset that is not a character boundary panics.           *)
(***************************************************************************)
EXTENDS Integers, Sequences, FiniteSets, TLC

\* ------------------------------------------------------------------------
\* Bounds of the model
\* ------------------------------------------------------------------------
MaxLen == 5
MaxSize == 3
MaxEvents == 3
MaxCmds == 3
NumPermBits == 2

None == "None"
\* Option<usize>::None, kept apart from every index
NoIndex == 0 - 1

\* Option<T>: None is the empty sequence, Some(v) the one-element sequence
NoneOpt == <<>>
Some(v) == <<v>>
IsSome(o) == Len(o) = 1
IsNone(o) == Len(o) = 0
Unwrap(o) == o[1]
UnwrapOr(o, d) == IF IsSome(o) THEN o[1] ELSE d

Min(a, b) == IF a < b THEN a ELSE b
Max(a, b) == IF a > b THEN a ELSE b

\* ------------------------------------------------------------------------
\* Strings as byte sequences
\* ------------------------------------------------------------------------
Bytes == {"a", "nl", "L", "C"}

\* A &str is always valid UTF-8: a lead byte is followed by its continuation
\* byte and a continuation byte follows a lead byte.
ValidUtf8(s) ==
    \A i \in 1..Len(s) :
        /\ s[i] = "L" => (i < Len(s) /\ s[i + 1] = "C")
        /\ s[i] = "C" => (i > 1 /\ s[i - 1] = "L")

Texts == {s \in UNION {[1..n -> Bytes] : n \in 0..MaxLen} : ValidUtf8(s)}

PageSizes == 1..MaxSize

\* str::is_char_boundary, byte offset i (0-based)
IsCharBoundary(s, i) ==
    \/ i = 0
    \/ i = Len(s)
    \/ (i < Len(s) /\ s[i + 1] # "C")

\* &s[from..to] for offsets that are character boundaries
Slice(s, from, to) == SubSeq(s, from + 1, to)

\* chunk.rfind('\n'): the 0-based offset of the last newline, or NoIndex
RFind(chunk) ==
    LET hits == {i \in 1..Len(chunk) : chunk[i] = "nl"}
    IN  IF hits = {} THEN NoIndex
        ELSE (CHOOSE i \in hits : \A j \in hits : j <= i) - 1

\* ------------------------------------------------------------------------
\* split_string_into_chunks_newline
\* ------------------------------------------------------------------------
\* The while loop, from the state (cur, chunks).  cuts records, per pushed
\* chunk, whether newline_index was Some (the chunk was cut at a newline).
\* The result is the returned Vec, or a panic when &string[cur..next] is
\* taken at an offset inside a character.
RECURSIVE SplitLoop(_, _, _, _, _)
SplitLoop(string, chunk_size, cur, chunks, cuts) ==
    LET end == Len(string)
    IN  IF ~(cur < end)
        THEN [panic |-> FALSE, chunks |-> chunks, cuts |-> cuts]
        ELSE LET next == Min(cur + chunk_size, end)
             IN  IF ~IsCharBoundary(string, cur) \/ ~IsCharBoundary(string, next)
                 THEN [panic |-> TRUE, chunks |-> chunks, cuts |-> cuts]
                 ELSE LET chunk == Slice(string, cur, next)
                          newline_index == RFind(chunk)
                      IN  IF newline_index # NoIndex
                          THEN SplitLoop(string, chunk_size,
                                   newline_index + cur + 1,
                                   Append(chunks, Slice(chunk, 0, newline_index)),
                                   Append(cuts, TRUE))
                          ELSE SplitLoop(string, chunk_size, next,
                                   Append(chunks, chunk), Append(cuts, FALSE))

split_string_into_chunks_newline(string, chunk_size) ==
    SplitLoop(string, chunk_size, 0, <<>>, <<>>)

\* ------------------------------------------------------------------------
\* create_page_getter_newline: the closure |page| chunks[page % chunks.len()]
\* ------------------------------------------------------------------------
page_getter(chunks, page) ==
    IF Len(chunks) = 0
    THEN [panic |-> "div_by_zero", text |-> <<>>]
    ELSE LET p == page % Len(chunks)
         IN  IF p + 1 \in DOMAIN chunks
             THEN [panic |-> "none", text |-> chunks[p + 1]]
             ELSE [panic |-> "index_out_of_range", text |-> <<>>]

\* ------------------------------------------------------------------------
\* Navigation buttons
\* ------------------------------------------------------------------------
\* to_ascii_lowercase on the strings the model uses: only ASCII letters change
ToAsciiLowercase(s) ==
    CASE s = "X" -> "x"
      [] s = "P" -> "p"
      [] s = "M" -> "m"
      [] OTHER -> s

build_single_nav_btn(label, is_disabled) ==
    [custom_id |-> ToAsciiLowercase(label), label |-> label, disabled |-> is_disabled]

build_nav_btns_off_by_one(page, num_pages) ==
    LET cant_left == page < 1
        cant_right == page >= num_pages
    IN  <<build_single_nav_btn("<<", cant_left),
          build_single_nav_btn("<", cant_left),
          build_single_nav_btn(">", cant_right),
          build_single_nav_btn(">>", cant_right)>>

build_nav_btns(page, num_pages) ==
    LET cant_left == page < 1
        cant_right == page >= num_pages - 1
    IN  <<build_single_nav_btn("<<", cant_left),
          build_single_nav_btn("<", cant_left),
          build_single_nav_btn(">", cant_right),
          build_single_nav_btn(">>", cant_right)>>

\* usize::saturating_sub
SaturatingSub(a, b) == IF a >= b THEN a - b ELSE 0

\* The match on btn_id.as_str(): the new page, or NoIndex for the `_ => continue` arm
MatchBtnNoClamp(btn, cur_page, n_pages) ==
    CASE btn = "<<" -> 0
      [] btn = "<"  -> Min(SaturatingSub(cur_page, 1), n_pages - 1)
      [] btn = ">"  -> cur_page + 1
      [] btn = ">>" -> n_pages - 1
      [] OTHER      -> NoIndex

MatchBtnOtherResets(btn, cur_page, n_pages) ==
    CASE btn = "<<" -> 0
      [] btn = "<"  -> Min(SaturatingSub(cur_page, 1), n_pages - 1)
      [] btn = ">"  -> Min(cur_page + 1, n_pages - 1)
      [] btn = ">>" -> n_pages - 1
      [] OTHER      -> 0

MatchBtn(btn, cur_page, n_pages) ==
    CASE btn = "<<" -> 0
      [] btn = "<"  -> Min(SaturatingSub(cur_page, 1), n_pages - 1)
      [] btn = ">"  -> Min(cur_page + 1, n_pages - 1)
      [] btn = ">>" -> n_pages - 1
      [] OTHER      -> NoIndex

\* Control ids an event may carry: the four buttons and ids that match none
BtnIds == {"<<", "<", ">", ">>", "x", ">>>"}

\* The message body format!("```\n{}\n{}\n```", page_getter(p), footer) with
\* footer "Page {p+1}/{num_pages}", and the button row
PageMessage(text, p, n_pages) ==
    [kind |-> "page", text |-> text, footer |-> <<p + 1, n_pages>>,
     components |-> build_nav_btns(p, n_pages)]

TimedOutMessage(old) ==
    [kind |-> "timed_out", text |-> <<>>, footer |-> <<0, 0>>,
     components |-> old.components]

NoMessage == [kind |-> "none", text |-> <<>>, footer |-> <<0, 0>>, components |-> <<>>]

\* ------------------------------------------------------------------------
\* Commands and the help configuration
\* ------------------------------------------------------------------------
\* A String whose length the code measures is the sequence of its characters;
\* a literal fragment whose length is never measured is a single element.
\*
\* crate::Command, the fields help.rs reads:
\*   name, category, description, help_text : strings (Option but for name)
\*   hide_in_help, slash_action, prefix_action : the actions as "is_some()"
\*   context_menu_name : Option<String>
\*   context_menu_action : None, Some("User") or Some("Message")
\*   parameters : sequence of [name, description, required]
\*   subcommands : sequence of commands
Spaces(n) == [i \in 1..n |-> " "]

\* The backtick character and the code fence of three backticks
Backtick == "bq"
Fence == "fence"

\* ------------------------------------------------------------------------
\* TwoColumnList
\* ------------------------------------------------------------------------
push_two_colums(list, command, description) ==
    Append(list, [command |-> command, description |-> Some(description)])

push_heading(list, category) ==
    LET sep == IF list # <<>>
               THEN Append(list, [command |-> <<>>, description |-> NoneOpt])
               ELSE list
    IN  Append(sep, [command |-> category \o <<":">>, description |-> NoneOpt])

SetMax(S) == IF S = {} THEN 0 ELSE CHOOSE m \in S : \A x \in S : x <= m

RECURSIVE WriteLines(_, _)
WriteLines(list, longest_command) ==
    IF list = <<>> THEN <<>>
    ELSE LET row == Head(list)
             line == IF IsSome(row.description)
                     THEN row.command
                          \o Spaces(longest_command - Len(row.command) + 3)
                          \o Unwrap(row.description)
                     ELSE row.command
         IN  line \o <<"nl">> \o WriteLines(Tail(list), longest_command)

into_string(list) ==
    LET longest_command ==
            SetMax({Len(list[i].command) :
                        i \in {j \in DOMAIN list : IsSome(list[j].description)}})
    IN  WriteLines(list, longest_command)

\* ------------------------------------------------------------------------
\* format_context_menu_name
\* ------------------------------------------------------------------------
format_context_menu_name(command) ==
    IF IsNone(command.context_menu_action) THEN NoneOpt
    ELSE LET kind == IF Unwrap(command.context_menu_action) = "User"
                     THEN <<"u", "s", "e", "r">>
                     ELSE <<"m", "e", "s", "s", "a", "g", "e">>
         IN  Some(UnwrapOr(command.context_menu_name, command.name)
                  \o <<" ", "(", "o", "n", " ">> \o kind \o <<")">>)

\* ------------------------------------------------------------------------
\* preformat_subcommands, preformat_command
\* ------------------------------------------------------------------------
RECURSIVE PreformatSubLoop(_, _, _, _)
PreformatSubLoop(list, subcommands, as_context_command, prefix) ==
    IF subcommands = <<>> THEN list
    ELSE LET subcommand == Head(subcommands)
             name == format_context_menu_name(subcommand)
             description == UnwrapOr(subcommand.description, <<>>)
         IN  IF as_context_command /\ IsNone(name)
             THEN PreformatSubLoop(list, Tail(subcommands), as_context_command, prefix)
             ELSE PreformatSubLoop(
                      push_two_colums(list,
                          IF as_context_command THEN Unwrap(name)
                          ELSE prefix \o <<" ">> \o subcommand.name,
                          description),
                      Tail(subcommands), as_context_command, prefix)

preformat_subcommands(list, command, prefix) ==
    PreformatSubLoop(list, command.subcommands,
                     ~command.slash_action /\ ~command.prefix_action, prefix)

\* The row pushed by the unreachable!() arm stands for the panic
UnreachableRow == [command |-> <<"unreachable!">>, description |-> NoneOpt]

preformat_command(list, config, command, indent, options_prefix) ==
    IF ~command.slash_action /\ ~command.prefix_action
    THEN Append(list, UnreachableRow)
    ELSE LET prefix == IF command.slash_action THEN <<"/">>
                       ELSE UnwrapOr(options_prefix, <<>>)
             label == indent \o prefix \o command.name
             pushed == push_two_colums(list, label,
                                       UnwrapOr(command.description, <<>>))
         IN  IF config.show_subcommands
             THEN preformat_subcommands(pushed, command, label)
             ELSE pushed

\* ------------------------------------------------------------------------
\* generate_all_commands
\* ------------------------------------------------------------------------
\* crate::util::OrderedMap::get_or_insert_with(key, Vec::new) followed by
\* push(cmd): the map is a sequence of [key, value] in insertion order.
OrderedMapPush(map, key, cmd) ==
    IF \E i \in DOMAIN map : map[i].key = key
    THEN [i \in DOMAIN map |->
             IF map[i].key = key
             THEN [key |-> key, value |-> Append(map[i].value, cmd)]
             ELSE map[i]]
    ELSE Append(map, [key |-> key, value |-> <<cmd>>])

RECURSIVE BuildCategories(_, _)
BuildCategories(map, cmds) ==
    IF cmds = <<>> THEN map
    ELSE BuildCategories(OrderedMapPush(map, Head(cmds).category, Head(cmds)),
                         Tail(cmds))

\* The filter closure of lines 316-318
IsListedIgnoringHidden(cmd) == cmd.prefix_action \/ cmd.slash_action

IsListed(cmd) == ~cmd.hide_in_help /\ (cmd.prefix_action \/ cmd.slash_action)

RECURSIVE PreformatAll(_, _, _, _)
PreformatAll(list, config, cmds, options_prefix) ==
    IF cmds = <<>> THEN list
    ELSE PreformatAll(
             preformat_command(list, config, Head(cmds), <<" ", " ">>, options_prefix),
             config, Tail(cmds), options_prefix)

CommandsHeading == <<"C", "o", "m", "m", "a", "n", "d", "s">>

\* The loop `for (category_name, commands) in categories`
RECURSIVE CategoryLoop(_, _, _, _)
CategoryLoop(list, config, categories, options_prefix) ==
    IF categories = <<>> THEN list
    ELSE LET category_name == Head(categories).key
             cmds == SelectSeq(Head(categories).value, IsListed)
         IN  IF cmds = <<>>
             THEN CategoryLoop(list, config, Tail(categories), options_prefix)
             ELSE CategoryLoop(
                      PreformatAll(
                          push_heading(list, UnwrapOr(category_name, CommandsHeading)),
                          config, cmds, options_prefix),
                      config, Tail(categories), options_prefix)

RECURSIVE ContextMenuLines(_)
ContextMenuLines(cmds) ==
    IF cmds = <<>> THEN <<>>
    ELSE LET name == format_context_menu_name(Head(cmds))
         IN  (IF IsNone(name) THEN <<>>
              ELSE <<" ", " ">> \o Unwrap(name) \o <<"nl">>)
             \o ContextMenuLines(Tail(cmds))

\* The TwoColumnList generate_all_commands builds
AllCommandsList(cmds, config, options_prefix) ==
    CategoryLoop(<<>>, config, BuildCategories(<<>>, cmds), options_prefix)

\* The menu text generate_all_commands returns, list being the TwoColumnList
AllCommandsMenu(list, cmds, config) ==
    into_string(list)
    \o (IF config.show_context_menu_commands
        THEN <<"nl", "Context menu commands:", "nl">> \o ContextMenuLines(cmds)
        ELSE <<>>)
    \o <<"nl">> \o config.extra_text_at_bottom

\* ------------------------------------------------------------------------
\* help_single_command
\* ------------------------------------------------------------------------
\* str::eq_ignore_ascii_case on character sequences
LowerStr(str) == [i \in DOMAIN str |-> ToAsciiLowercase(str[i])]
eq_ignore_ascii_case(a, b) == LowerStr(a) = LowerStr(b)

\* The requested name is the sequence of its whitespace-separated tokens.
\* Context-menu names hold no whitespace, so one is equal to the requested
\* name exactly when the name is that single token.
FindByContextMenuName(cmds, command_name) ==
    LET hits == {i \in DOMAIN cmds :
                    /\ IsSome(cmds[i].context_menu_name)
                    /\ Len(command_name) = 1
                    /\ eq_ignore_ascii_case(Unwrap(cmds[i].context_menu_name),
                                            command_name[1])}
    IN  IF hits = {} THEN NoneOpt
        ELSE Some(cmds[CHOOSE i \in hits : \A j \in hits : i <= j])

\* crate::find_command(commands, name, true, ..): the deepest command reached
\* by matching the tokens case-insensitively down the subcommands, the first
\* match in registration order at each level.
RECURSIVE find_command(_, _)
find_command(cmds, tokens) ==
    IF tokens = <<>> THEN NoneOpt
    ELSE LET hits == {i \in DOMAIN cmds :
                         eq_ignore_ascii_case(cmds[i].name, Head(tokens))}
         IN  IF hits = {} THEN NoneOpt
             ELSE LET command == cmds[CHOOSE i \in hits : \A j \in hits : i <= j]
                      deeper == find_command(command.subcommands, Tail(tokens))
                  IN  IF IsSome(deeper) THEN deeper ELSE Some(command)

\* Lines 132-147
ResolveCommand(cmds, command_name) ==
    LET by_menu == FindByContextMenuName(cmds, command_name)
    IN  IF IsSome(by_menu) THEN by_menu ELSE find_command(cmds, command_name)

RECURSIVE Join(_, _)
Join(strs, sep) ==
    IF strs = <<>> THEN <<>>
    ELSE IF Len(strs) = 1 THEN Head(strs)
    ELSE Head(strs) \o sep \o Join(Tail(strs), sep)

\* Lines 150-175: the invocation forms and the subprefix
Invocations(command, options_prefix) ==
    LET prefix == UnwrapOr(options_prefix, <<"<prefix>">>)
    IN  (IF command.slash_action
         THEN << <<Backtick, "/">> \o command.name \o <<Backtick>> >> ELSE <<>>)
        \o (IF command.prefix_action
            THEN << <<Backtick>> \o prefix \o command.name \o <<Backtick>> >> ELSE <<>>)
        \o (IF IsSome(command.context_menu_name) /\ IsSome(command.context_menu_action)
            THEN <<Unwrap(format_context_menu_name(command))>> ELSE <<>>)

Subprefix(command, options_prefix) ==
    LET prefix == UnwrapOr(options_prefix, <<"<prefix>">>)
    IN  IF command.slash_action
        THEN Some(<<" ", " ", "/">> \o command.name)
        ELSE IF command.prefix_action
        THEN Some(<<" ", " ">> \o prefix \o command.name)
        ELSE IF IsSome(command.context_menu_name) /\ IsSome(command.context_menu_action)
        THEN Some(<<" ", " ">>)
        ELSE NoneOpt

\* Lines 181-192: the match on (description, help_text)
BodyText(command, config) ==
    IF IsSome(command.description) /\ IsSome(command.help_text)
    THEN IF config.include_description
         THEN Unwrap(command.description) \o <<"nl", "nl">> \o Unwrap(command.help_text)
         ELSE Unwrap(command.help_text)
    ELSE IF IsSome(command.description)
    THEN Unwrap(command.description)
    ELSE IF IsSome(command.help_text)
    THEN Unwrap(command.help_text)
    ELSE <<"No help available">>

\* Lines 193-212
RECURSIVE ParameterList(_, _)
ParameterList(list, parameters) ==
    IF parameters = <<>> THEN list
    ELSE LET parameter == Head(parameters)
             description ==
                 <<IF parameter.required THEN "(required) " ELSE "(optional) ">>
                 \o UnwrapOr(parameter.description, <<>>)
         IN  ParameterList(push_two_colums(list, parameter.name, description),
                           Tail(parameters))

ParametersBlock(command) ==
    IF command.parameters # <<>>
    THEN <<"nl", "nl", Fence, "nl", "Parameters:", "nl">>
         \o into_string(ParameterList(<<>>, command.parameters))
         \o <<Fence>>
    ELSE <<>>

\* Lines 213-226
SubcommandsBlock(command, subprefix) ==
    IF command.subcommands # <<>>
    THEN <<"nl", "nl", Fence, "nl", "Subcommands:", "nl">>
         \o into_string(preformat_subcommands(<<>>, command,
                                              UnwrapOr(subprefix, <<" ", " ">>)))
         \o <<Fence>>
    ELSE <<>>

NoReply == [kind |-> "none", invocations |-> <<>>, body |-> <<>>,
            content |-> <<>>, ephemeral |-> FALSE]

\* The reply help_single_command builds (lines 149-234), or the panic of a
\* failed assert!
help_single_command(cmds, command_name, config, options_prefix) ==
    LET found == ResolveCommand(cmds, command_name)
    IN  IF IsNone(found)
        THEN [panic |-> "none",
              reply |-> [kind |-> "no_such_command", invocations |-> <<>>,
                         body |-> <<>>,
                         content |-> <<"No such command ", Backtick>>
                                     \o Join(command_name, <<" ">>) \o <<Backtick>>,
                         ephemeral |-> config.ephemeral]]
        ELSE LET command == Unwrap(found)
                 invocations == Invocations(command, options_prefix)
                 subprefix == Subprefix(command, options_prefix)
                 body == BodyText(command, config)
                 text == body \o ParametersBlock(command)
                              \o SubcommandsBlock(command, subprefix)
             IN  IF IsNone(subprefix)
                 THEN [panic |-> "assert subprefix.is_some()", reply |-> NoReply]
                 ELSE IF invocations = <<>>
                 THEN [panic |-> "assert !invocations.is_empty()", reply |-> NoReply]
                 ELSE [panic |-> "none",
                       reply |-> [kind |-> "help",
                                  invocations |-> invocations,
                                  body |-> body,
                                  content |-> <<"**">> \o Join(invocations, <<"nl">>)
                                              \o <<"**", "nl", "nl">> \o text,
                                  ephemeral |-> config.ephemeral]]

\* ------------------------------------------------------------------------
\* get_author_and_bot_permissions
\* ------------------------------------------------------------------------
\* The three expect() calls in order; the first None panics with its message.
get_author_and_bot_permissions(interaction) ==
    IF IsNone(interaction.member)
    THEN [outcome |-> "panic",
          message |-> "member is Some if interaction is in guild",
          info |-> [author_permissions |-> NoneOpt, bot_permissions |-> NoneOpt]]
    ELSE IF IsNone(Unwrap(interaction.member).permissions)
    THEN [outcome |-> "panic",
          message |-> "should always be some as inside interaction",
          info |-> [author_permissions |-> NoneOpt, bot_permissions |-> NoneOpt]]
    ELSE IF IsNone(interaction.app_permissions)
    THEN [outcome |-> "panic",
          message |-> "should always be some according to discord docs",
          info |-> [author_permissions |-> NoneOpt, bot_permissions |-> NoneOpt]]
    ELSE [outcome |-> "returned",
          message |-> "",
          info |-> [author_permissions |->
                        Some(Unwrap(Unwrap(interaction.member).permissions)),
                    bot_permissions |-> Some(Unwrap(interaction.app_permissions))]]

\* ------------------------------------------------------------------------
\* State
\* ------------------------------------------------------------------------
VARIABLES
    content,      \* create_paged_embed: the content argument
    page_size,    \* create_paged_embed: the page_size argument
    pc,           \* position of create_paged_embed: "start", "loop", "done"
    split,        \* result of split_string_into_chunks_newline(content, page_size)
    num_pages,    \* content.len() / page_size + 1
    page,         \* the Arc<RwLock<usize>> page index
    btn_id,       \* custom_id of the last consumed component interaction
    events,       \* number of component interactions consumed
    message,      \* what the message currently shows
    updates,      \* number of sends / interaction responses issued
    edit_status,  \* the final message.edit: "none", "ok", "failed"
    result,       \* "none" while running, then "Ok", "Err" or "panic"
    panic,        \* reason of the panic, "none" if there is none
    interaction,  \* the CommandInteraction given to get_author_and_bot_permissions
    perm_pc,      \* "call" before get_author_and_bot_permissions, then "done"
    perm_res,     \* its outcome: the PermissionsInfo returned, or the panic
    commands,     \* ctx.framework().options().commands
    config,       \* the HelpConfiguration
    command_name, \* help_single_command: the requested name, as tokens
    help_pc,      \* "call_all", "call_single", then "done"
    commandlist,  \* generate_all_commands: the TwoColumnList it built
    menu,         \* generate_all_commands: the text it returned
    reply,        \* help_single_command: the reply it built
    help_result,  \* "none", then "Ok", "Err" or "panic"
    help_panic    \* reason of the panic, "none" if there is none

pagedVars == <<content, page_size, pc, split, num_pages, page, btn_id, events,
               message, updates, edit_status, result, panic>>
permVars == <<interaction, perm_pc, perm_res>>
helpVars == <<commands, config, command_name, help_pc, commandlist, menu, reply,
              help_result, help_panic>>

vars == <<pagedVars, permVars, helpVars>>

NoSplit == [panic |-> FALSE, chunks |-> <<>>, cuts |-> <<>>]

NoPermRes ==
    [outcome |-> "pending", message |-> "",
     info |-> [author_permissions |-> NoneOpt, bot_permissions |-> NoneOpt]]

NoInteraction ==
    [guild_id |-> NoneOpt, member |-> NoneOpt, app_permissions |-> NoneOpt]

DefaultConfig ==
    [extra_text_at_bottom |-> <<>>, ephemeral |-> TRUE,
     show_context_menu_commands |-> FALSE, show_subcommands |-> FALSE,
     include_description |-> TRUE]

\* The components a specification does not exercise stay as they are here
IdlePaged ==
    /\ content = <<>> /\ page_size = 1 /\ pc = "idle" /\ split = NoSplit
    /\ num_pages = 0 /\ page = 0 /\ btn_id = None /\ events = 0
    /\ message = NoMessage /\ updates = 0 /\ edit_status = "none"
    /\ result = "none" /\ panic = "none"

IdlePerm ==
    /\ interaction = NoInteraction /\ perm_pc = "idle" /\ perm_res = NoPermRes

IdleHelp ==
    /\ commands = <<>> /\ config = DefaultConfig /\ command_name = <<>>
    /\ help_pc = "idle" /\ commandlist = <<>> /\ menu = <<>> /\ reply = NoReply
    /\ help_result = "none" /\ help_panic = "none"

\* ------------------------------------------------------------------------
\* create_paged_embed
\* ------------------------------------------------------------------------
InitPaged ==
    /\ content \in Texts
    /\ page_size \in PageSizes
    /\ pc = "start"
    /\ split = NoSplit
    /\ num_pages = 0
    /\ page = 0
    /\ btn_id = None
    /\ events = 0
    /\ message = NoMessage
    /\ updates = 0
    /\ edit_status = "none"
    /\ result = "none"
    /\ panic = "none"
    /\ IdlePerm
    /\ IdleHelp

\* Lines 433-459: build the page getter, compute num_pages, render page 0 and
\* send it.  send_ok is the outcome of ctx.send(..).await?.into_message().await?
Start(send_ok) ==
    /\ pc = "start"
    /\ LET s == split_string_into_chunks_newline(content, page_size)
           n == (Len(content) \div page_size) + 1
           first == page_getter(s.chunks, 0)
       IN  /\ split' = s
           /\ IF s.panic
              THEN /\ pc' = "done" /\ result' = "panic" /\ panic' = "char_boundary"
                   /\ UNCHANGED <<num_pages, message, updates>>
              ELSE /\ num_pages' = n
                   /\ IF first.panic # "none"
                      THEN /\ pc' = "done" /\ result' = "panic" /\ panic' = first.panic
                           /\ UNCHANGED <<message, updates>>
                      ELSE /\ updates' = updates + 1
                           /\ panic' = "none"
                           /\ IF send_ok
                              THEN /\ message' = PageMessage(first.text, 0, n)
                                   /\ pc' = "loop" /\ result' = "none"
                              ELSE /\ message' = message
                                   /\ pc' = "done" /\ result' = "Err"
    /\ UNCHANGED <<content, page_size, page, btn_id, events, edit_status>>
    /\ UNCHANGED <<permVars, helpVars>>

\* Lines 461-490: one iteration of `while let Some(mci) = cib.next().await`.
\* id is the interaction's custom_id, respond_ok the outcome of create_response.
NavEvent(id, respond_ok) ==
    /\ pc = "loop"
    /\ events < MaxEvents
    /\ events' = events + 1
    /\ btn_id' = id
    /\ LET new_page == MatchBtn(id, page, num_pages)
       IN  IF new_page = NoIndex
           THEN \* `_ => continue`
                UNCHANGED <<page, message, updates, pc, result, panic>>
           ELSE LET got == page_getter(split.chunks, new_page)
                IN  /\ page' = new_page
                    /\ IF got.panic # "none"
                       THEN /\ pc' = "done" /\ result' = "panic" /\ panic' = got.panic
                            /\ UNCHANGED <<message, updates>>
                       ELSE /\ updates' = updates + 1
                            /\ panic' = panic
                            /\ IF respond_ok
                               THEN /\ message' = PageMessage(got.text, new_page, num_pages)
                                    /\ UNCHANGED <<pc, result>>
                               ELSE /\ message' = message
                                    /\ pc' = "done" /\ result' = "Err"
    /\ UNCHANGED <<content, page_size, split, num_pages, edit_status>>
    /\ UNCHANGED <<permVars, helpVars>>

\* Lines 492-500: the stream ended (ten minutes without an interaction); the
\* message is edited to the timed-out notice and the edit's Result is unwrapped.
Timeout(edit_ok) ==
    /\ pc = "loop"
    /\ pc' = "done"
    /\ IF edit_ok
       THEN /\ edit_status' = "ok"
            /\ message' = TimedOutMessage(message)
            /\ result' = "Ok"
            /\ panic' = panic
       ELSE /\ edit_status' = "failed"
            /\ message' = message
            /\ result' = "panic"
            /\ panic' = "unwrap_on_err"
    /\ UNCHANGED <<content, page_size, split, num_pages, page, btn_id, events, updates>>
    /\ UNCHANGED <<permVars, helpVars>>

NextPaged ==
    \/ \E send_ok \in BOOLEAN : Start(send_ok)
    \/ \E id \in BtnIds, respond_ok \in BOOLEAN : NavEvent(id, respond_ok)
    \/ \E edit_ok \in BOOLEAN : Timeout(edit_ok)

SpecPaged == InitPaged /\ [][NextPaged]_vars

\* ------------------------------------------------------------------------
\* Permission lookup
\* ------------------------------------------------------------------------
Permissions == SUBSET (1..NumPermBits)

Members == {[permissions |-> p] : p \in {NoneOpt} \cup {Some(x) : x \in Permissions}}

Interactions ==
    [guild_id : {NoneOpt, Some("guild")},
     member : {NoneOpt} \cup {Some(m) : m \in Members},
     app_permissions : {NoneOpt} \cup {Some(x) : x \in Permissions}]

InitPerm ==
    /\ interaction \in Interactions
    /\ perm_pc = "call"
    /\ perm_res = NoPermRes
    /\ IdlePaged
    /\ IdleHelp

\* The call of get_author_and_bot_permissions on the interaction
GetAuthorAndBotPermissions ==
    /\ perm_pc = "call"
    /\ perm_pc' = "done"
    /\ perm_res' = get_author_and_bot_permissions(interaction)
    /\ UNCHANGED interaction
    /\ UNCHANGED <<pagedVars, helpVars>>

NextPerm == GetAuthorAndBotPermissions

SpecPerm == InitPerm /\ [][NextPerm]_vars

\* ------------------------------------------------------------------------
\* Help: registries, configurations and requests
\* ------------------------------------------------------------------------
\* The i-th registered command is named by i characters: names are distinct
\* and of different lengths.
CmdName(i) == [k \in 1..i |-> "p"]

SubPlain ==
    [name |-> <<"s">>, category |-> NoneOpt, description |-> Some(<<"S">>),
     help_text |-> NoneOpt, hide_in_help |-> FALSE,
     slash_action |-> TRUE, prefix_action |-> TRUE,
     context_menu_name |-> NoneOpt, context_menu_action |-> NoneOpt,
     parameters |-> <<>>, subcommands |-> <<>>]

SubMenu ==
    [name |-> <<"t">>, category |-> NoneOpt, description |-> NoneOpt,
     help_text |-> NoneOpt, hide_in_help |-> FALSE,
     slash_action |-> FALSE, prefix_action |-> FALSE,
     context_menu_name |-> NoneOpt, context_menu_action |-> Some("User"),
     parameters |-> <<>>, subcommands |-> <<>>]

Categories == {NoneOpt, Some(<<"A">>)}

\* Commands of the all-commands listing: category and visibility vary freely;
\* a command is a slash and prefix command, a prefix-only command or, without
\* either action, a context-menu command; a prefix-only command owns
\* subcommands.
Surfaces ==
    {[slash_action |-> TRUE, prefix_action |-> TRUE],
     [slash_action |-> FALSE, prefix_action |-> TRUE],
     [slash_action |-> FALSE, prefix_action |-> FALSE]}

ListingShapes ==
    {[category |-> c, hide_in_help |-> h,
      slash_action |-> f.slash_action, prefix_action |-> f.prefix_action] :
        c \in Categories, h \in BOOLEAN, f \in Surfaces}

ListingCommand(i, shape) ==
    [name |-> CmdName(i), category |-> shape.category,
     description |-> Some(<<"D">>), help_text |-> NoneOpt,
     hide_in_help |-> shape.hide_in_help,
     slash_action |-> shape.slash_action, prefix_action |-> shape.prefix_action,
     context_menu_name |-> NoneOpt,
     context_menu_action |->
         IF ~shape.slash_action /\ ~shape.prefix_action
         THEN Some("Message") ELSE NoneOpt,
     parameters |-> <<>>,
     subcommands |-> IF shape.prefix_action /\ ~shape.slash_action
                     THEN <<SubPlain, SubMenu>> ELSE <<>>]

ListingRegistry(shapes) == [i \in DOMAIN shapes |-> ListingCommand(i, shapes[i])]

ListingConfigs ==
    {[DefaultConfig EXCEPT !.show_context_menu_commands = c,
                           !.show_subcommands = s,
                           !.extra_text_at_bottom = <<"footer">>] :
        c \in BOOLEAN, s \in BOOLEAN}

\* get_prefix_from_options: the fixed or dynamic prefix, or None
PrefixOutcomes == {NoneOpt, Some(<<"~">>)}

InitHelpAll ==
    /\ \E n \in 0..MaxCmds : \E shapes \in [1..n -> ListingShapes] :
           commands = ListingRegistry(shapes)
    /\ config \in ListingConfigs
    /\ command_name = <<>>
    /\ help_pc = "call_all"
    /\ commandlist = <<>> /\ menu = <<>> /\ reply = NoReply
    /\ help_result = "none" /\ help_panic = "none"
    /\ IdlePaged
    /\ IdlePerm

\* generate_all_commands, as help_all_commands calls it; the menu it returns
\* is then handed to create_paged_embed (SpecPaged).
GenerateAllCommands(options_prefix) ==
    /\ help_pc = "call_all"
    /\ help_pc' = "done"
    /\ LET list == AllCommandsList(commands, config, options_prefix)
       IN  /\ commandlist' = list
           /\ IF \E i \in DOMAIN list : list[i] = UnreachableRow
              THEN /\ menu' = menu
                   /\ help_result' = "panic" /\ help_panic' = "unreachable!()"
              ELSE /\ menu' = AllCommandsMenu(list, commands, config)
                   /\ help_result' = "Ok" /\ help_panic' = "none"
    /\ UNCHANGED <<commands, config, command_name, reply>>
    /\ UNCHANGED <<pagedVars, permVars>>

NextHelpAll == \E options_prefix \in PrefixOutcomes : GenerateAllCommands(options_prefix)

SpecHelpAll == InitHelpAll /\ [][NextHelpAll]_vars

\* Commands of single-command help: every combination of description, help
\* text, surfaces, context-menu name and action, parameters and subcommands.
Parameter1 == [name |-> <<"x">>, description |-> Some(<<"X">>), required |-> TRUE]
Parameter2 == [name |-> <<"y", "y">>, description |-> NoneOpt, required |-> FALSE]

SingleCommands ==
    [name : {CmdName(1)}, category : {NoneOpt},
     description : {NoneOpt, Some(<<"D">>)},
     help_text : {NoneOpt, Some(<<"H">>)},
     hide_in_help : {FALSE},
     slash_action : BOOLEAN, prefix_action : BOOLEAN,
     context_menu_name : {NoneOpt, Some(<<"m">>)},
     context_menu_action : {NoneOpt, Some("User"), Some("Message")},
     parameters : {<<>>, <<Parameter1, Parameter2>>},
     subcommands : {<<>>, <<SubPlain, SubMenu>>}]

\* A second registered command whose context-menu name is the first one's name
MenuNamedLikeFirst ==
    [name |-> CmdName(2), category |-> NoneOpt,
     description |-> Some(<<"E">>), help_text |-> NoneOpt, hide_in_help |-> FALSE,
     slash_action |-> FALSE, prefix_action |-> TRUE,
     context_menu_name |-> Some(CmdName(1)), context_menu_action |-> Some("Message"),
     parameters |-> <<>>, subcommands |-> <<>>]

SingleRegistry(c, with_second) ==
    IF with_second THEN <<c, MenuNamedLikeFirst>> ELSE <<c>>

SingleConfigs ==
    {[DefaultConfig EXCEPT !.include_description = d] : d \in BOOLEAN}

RequestedNames ==
    {<<>>, <<CmdName(1)>>, << <<"P">> >>, << <<"M">> >>, <<CmdName(1), <<"s">> >>,
     <<CmdName(1), <<"t">> >>, << <<"z">> >>}

InitHelpSingle ==
    /\ \E c \in SingleCommands, with_second \in BOOLEAN :
           commands = SingleRegistry(c, with_second)
    /\ config \in SingleConfigs
    /\ command_name \in RequestedNames
    /\ help_pc = "call_single"
    /\ commandlist = <<>> /\ menu = <<>> /\ reply = NoReply
    /\ help_result = "none" /\ help_panic = "none"
    /\ IdlePaged
    /\ IdlePerm

\* help_single_command; send_ok is the outcome of ctx.send(reply).await?
HelpSingleCommand(options_prefix, send_ok) ==
    /\ help_pc = "call_single"
    /\ help_pc' = "done"
    /\ LET r == help_single_command(commands, command_name, config, options_prefix)
       IN  /\ reply' = r.reply
           /\ help_panic' = r.panic
           /\ help_result' = IF r.panic # "none" THEN "panic"
                             ELSE IF send_ok THEN "Ok" ELSE "Err"
    /\ UNCHANGED <<commands, config, command_name, commandlist, menu>>
    /\ UNCHANGED <<pagedVars, permVars>>

NextHelpSingle ==
    \E options_prefix \in PrefixOutcomes, send_ok \in BOOLEAN :
        HelpSingleCommand(options_prefix, send_ok)

SpecHelpSingle == InitHelpSingle /\ [][NextHelpSingle]_vars

\* help_single_command asked for a context-menu name: the request is the
\* registered context-menu name in another case, so that only the lookup of
\* lines 134-141 can resolve it.
InitHelpByMenuName ==
    /\ InitHelpSingle
    /\ command_name = << <<"M">> >>

SpecHelpByMenuName == InitHelpByMenuName /\ [][NextHelpSingle]_vars

\* ------------------------------------------------------------------------
\* Properties of the paged display (checked under SpecPaged)
\* ------------------------------------------------------------------------
\* The page count of the specification: floor(text_length / maxSize) + 1
SpecNumPages == (Len(content) \div page_size) + 1

\* The page state machine of the specification
SpecTransition(id, current, numPages) ==
    CASE id = "<<" -> 0
      [] id = "<"  -> Max(0, current - 1)
      [] id = ">"  -> Min(numPages - 1, current + 1)
      [] id = ">>" -> numPages - 1
      [] OTHER     -> current

KnownIds == {"<<", "<", ">", ">>"}

\* A step that consumes one navigation event
IsNavStep == events' = events + 1

\* C1: the page index starts at 0, every navigation event moves it as the
\* specified transition does from the previous index, and it always stays in
\* 0..numPages-1 (so ">" on the last page and "<" on page 0 change nothing).
C1_PageFollowsTransitions ==
    /\ [](/\ page \in 0..(SpecNumPages - 1)
          /\ (pc = "start" => page = 0))
    /\ [][IsNavStep => page' = SpecTransition(btn_id', page, SpecNumPages)]_vars

C1_Witness ==
    /\ pc = "loop" /\ events = MaxEvents
    /\ SpecNumPages >= 3
    /\ btn_id = ">" /\ page = SpecNumPages - 1

\* C2: no page lookup (the initial render of page 0 or the render after an
\* event) divides by zero or indexes outside the chunks.
C2_NoBadPageAccess == panic \notin {"div_by_zero", "index_out_of_range"}

\* Concatenation of the chunks, one newline re-inserted after each chunk that
\* was cut at a newline
RECURSIVE Rebuild(_, _)
Rebuild(chunks, cuts) ==
    IF chunks = <<>> THEN <<>>
    ELSE Head(chunks) \o (IF Head(cuts) THEN <<"nl">> ELSE <<>>)
         \o Rebuild(Tail(chunks), Tail(cuts))

ChunksSound ==
    /\ \A i \in DOMAIN split.chunks : Len(split.chunks[i]) <= page_size
    /\ Rebuild(split.chunks, split.cuts) = content

\* C3: for every text and chunk size >= 1 the splitter returns chunks none of
\* which is longer than the chunk size and which, with the cut newlines
\* re-inserted, concatenate to exactly the text.
C3_SplitReturnsSoundChunks ==
    pc # "start" => (~split.panic /\ ChunksSound)

\* The part of C3 that the code keeps: whenever the splitter returns, its
\* chunks are sound.
SplitSoundWhenItReturns ==
    (pc # "start" /\ ~split.panic) => ChunksSound

\* C4: the splitter returns at least one chunk for every input, and exactly
\* one empty chunk for the empty text.
C4_AtLeastOneChunk ==
    (pc # "start" /\ ~split.panic) =>
        /\ Len(split.chunks) >= 1
        /\ (content = <<>> => split.chunks = << <<>> >>)

\* C5: once the event stream has ended by timeout the engine returns Ok,
\* whether or not the final edit succeeded, and does not panic.
C5_TimeoutReturnsOk ==
    edit_status # "none" => (result = "Ok" /\ panic = "none")

\* C8: an event whose control id is none of the four buttons changes neither
\* the page index nor the message, issues no update, and the loop goes on.
C8_UnknownIdIgnored ==
    [][(IsNavStep /\ btn_id' \notin KnownIds) =>
          /\ page' = page
          /\ message' = message
          /\ updates' = updates
          /\ pc' = "loop"
          /\ result' = "none"]_vars

C8_Witness ==
    /\ pc = "loop" /\ btn_id \notin KnownIds /\ btn_id # None
    /\ page > 0 /\ message.footer[1] = page + 1

\* C9: in every rendered page the first and previous buttons are disabled
\* exactly on page 0 and the next and last buttons exactly on the last page;
\* while the loop runs the rendered page is the current page index.
C9_ButtonsDisabledAtBoundaries ==
    message.kind = "page" =>
        LET shown == message.footer[1] - 1
            btns == message.components
        IN  /\ Len(btns) = 4
            /\ btns[1].label = "<<" /\ btns[2].label = "<"
            /\ btns[3].label = ">" /\ btns[4].label = ">>"
            /\ \A i \in {1, 2} : btns[i].disabled <=> (shown = 0)
            /\ \A i \in {3, 4} : btns[i].disabled <=> (shown = SpecNumPages - 1)
            /\ (pc = "loop" => shown = page)

C9_Witness ==
    /\ message.kind = "page" /\ events > 0
    /\ SpecNumPages >= 2 /\ message.footer[1] = SpecNumPages
    /\ message.components[3].disabled /\ ~message.components[1].disabled

\* C12: every chunk the splitter produced is shown by some page index in
\* 0..numPages-1, that is, the page count is not smaller than the chunk count.
C12_EveryChunkReachable ==
    (pc # "start" /\ ~split.panic) =>
        /\ Len(split.chunks) <= SpecNumPages
        /\ \A i \in DOMAIN split.chunks :
               \E p \in 0..(SpecNumPages - 1) :
                   /\ page_getter(split.chunks, p).panic = "none"
                   /\ (p % Len(split.chunks)) + 1 = i

\* ------------------------------------------------------------------------
\* Properties of the permission lookup (checked under SpecPerm)
\* ------------------------------------------------------------------------
AllFieldsPresent ==
    /\ IsSome(interaction.member)
    /\ IsSome(Unwrap(interaction.member).permissions)
    /\ IsSome(interaction.app_permissions)

\* C6: on a guild-scoped interaction with the member, its permissions or the
\* application permissions absent the outcome is an error value handed to the
\* caller and not a crash; with all of them present both permission sets of
\* the result are Some.
C6_MissingFieldIsPropagatedError ==
    (perm_pc = "done" /\ IsSome(interaction.guild_id)) =>
        IF AllFieldsPresent
        THEN /\ perm_res.outcome = "returned"
             /\ IsSome(perm_res.info.author_permissions)
             /\ IsSome(perm_res.info.bot_permissions)
        ELSE perm_res.outcome = "Err"

\* ------------------------------------------------------------------------
\* Properties of the all-commands listing (checked under SpecHelpAll)
\* ------------------------------------------------------------------------
\* The headings of a TwoColumnList: its rows without description, but for the
\* blank separators
HeadingsOf(list) ==
    LET IsHeading(row) == IsNone(row.description) /\ row.command # <<>>
        rows == SelectSeq(list, IsHeading)
    IN  [i \in DOMAIN rows |-> rows[i].command]

HeadingText(category) == UnwrapOr(category, CommandsHeading) \o <<":">>

\* The elements of a sequence in the order of their first occurrence
RECURSIVE FirstSeen(_, _)
FirstSeen(seq, seen) ==
    IF seq = <<>> THEN <<>>
    ELSE IF Head(seq) \in seen THEN FirstSeen(Tail(seq), seen)
    ELSE <<Head(seq)>> \o FirstSeen(Tail(seq), seen \cup {Head(seq)})

CategoriesOf(cmds) == [i \in DOMAIN cmds |-> cmds[i].category]

IsVisible(cmd) == ~cmd.hide_in_help /\ (cmd.slash_action \/ cmd.prefix_action)

HasVisibleCommand(category) ==
    \E i \in DOMAIN commands : commands[i].category = category /\ IsVisible(commands[i])

ToHeadings(categories) == [i \in DOMAIN categories |-> HeadingText(categories[i])]

\* C7 as stated: the headings are the categories in the order in which each is
\* first seen among the visible commands only.
C7_HeadingsInVisibleFirstSeenOrder ==
    (help_pc = "done" /\ help_result = "Ok") =>
        HeadingsOf(commandlist)
            = ToHeadings(FirstSeen(CategoriesOf(SelectSeq(commands, IsVisible)), {}))

\* C7 as amended: the headings are the categories in the order in which each
\* is first seen among all registered commands, hidden or not, and a category
\* without visible command has no heading.
C7_HeadingsInRegistrationOrder ==
    (help_pc = "done" /\ help_result = "Ok") =>
        HeadingsOf(commandlist)
            = ToHeadings(SelectSeq(FirstSeen(CategoriesOf(commands), {}),
                                   HasVisibleCommand))

\* A hidden command of one category is registered before a visible command of
\* another, and both categories have a heading.
C7_Witness ==
    /\ help_pc = "done" /\ help_result = "Ok"
    /\ Len(commands) = 3
    /\ commands[1].hide_in_help /\ IsVisible(commands[2]) /\ IsVisible(commands[3])
    /\ commands[1].category = commands[3].category
    /\ commands[1].category # commands[2].category
    /\ Len(HeadingsOf(commandlist)) = 2

\* ------------------------------------------------------------------------
\* Properties of single-command help (checked under SpecHelpSingle)
\* ------------------------------------------------------------------------
Contains(text, str) ==
    \E i \in 0..(Len(text) - Len(str)) : SubSeq(text, i + 1, i + Len(str)) = str

FallbackText == <<"No help available">>

\* C10: with include_description off the description is not in the body text,
\* whatever of description and help text exists, and the body is the fallback
\* string only when neither exists.
C10_DescriptionOmittedWhenOff ==
    (help_pc = "done" /\ reply.kind = "help") =>
        LET command == Unwrap(ResolveCommand(commands, command_name))
        IN  /\ (~config.include_description /\ IsSome(command.description))
                   => ~Contains(reply.body, Unwrap(command.description))
            /\ (reply.body = FallbackText)
                   <=> (IsNone(command.description) /\ IsNone(command.help_text))

\* A command with at least one usable invocation form
HasUsableInvocation(command) ==
    \/ command.slash_action
    \/ command.prefix_action
    \/ (IsSome(command.context_menu_name) /\ IsSome(command.context_menu_action))

\* C11: help_single_command fails no assertion: either no command is resolved
\* and the reply is the "No such command" text, or the resolved command has a
\* usable invocation form; and no command with a context-menu name but no
\* context-menu action is resolved through its context-menu name.
C11_NoAssertionFails ==
    help_pc = "done" =>
        LET found == ResolveCommand(commands, command_name)
            by_menu == FindByContextMenuName(commands, command_name)
        IN  /\ help_panic = "none"
            /\ IF IsNone(found)
               THEN reply.kind = "no_such_command"
               ELSE HasUsableInvocation(Unwrap(found))
            /\ IsSome(by_menu) => IsSome(Unwrap(by_menu).context_menu_action)

====
